---- MODULE Spec2Model ----
(***************************************************************************)
(* A "run all" execution of the notebook                                   *)
(* Gemma/[Gemma_2]Using_Gemini_and_Gemma_with_RouteLLM.ipynb.              *)
(*                                                                         *)
(* One action per code cell, taken top to bottom.  A Python exception in a *)
(* cell halts the run; a failing `!` shell command or a failing background *)
(* process does not.  Time is counted in whole seconds from the moment the *)
(* "Start Ollama" cell begins, so that time.sleep(5) can be compared with  *)
(* the start-up delay of the background processes.                         *)
(***************************************************************************)
EXTENDS Integers, Sequences, FiniteSets

(* ---------------- bounds of the model ---------------- *)

\* longest start-up / download delay of a background process, in seconds
MaxDelay == 12
\* longest duration of a foreground cell that does not sleep, in seconds
MaxCellSecs == 1
\* how far the calibrated threshold may lie from the literal, in 1e-5 units
MaxThresholdDrift == 1

(* ---------------- values ---------------- *)

Never == -1
NoOutput == -1
Unset == "<unset>"
Missing == "<missing>"

SecretNames == {"HF_TOKEN", "GOOGLE_API_KEY"}
SecretValues == {"key_a", "key_b"}
EnvNames == {"HF_TOKEN", "GEMINI_API_KEY", "OPENAI_API_KEY"}

\* time.sleep(5) in both background-process cells
SleepSecs == 5

\* the threshold of the literal "router-bert-0.46514", in 1e-5 units
LiteralThreshold == 46514

\* what `routellm.calibrate_threshold` can print for bert at 30%: it depends
\* on the dataset and the router checkpoint, so any value near the literal
CalibrationOutputs ==
  { LiteralThreshold + d : d \in (0 - MaxThresholdDrift)..MaxThresholdDrift }

\* the cell order with the Controller cell moved above the "Start Ollama" cell
CellOrderControllerFirst ==
  << "load_credentials", "set_openai_key", "install_dependencies",
     "install_ollama", "construct_controller", "start_ollama", "run_gemma",
     "check_ollama", "calibrate_threshold", "chat_request" >>

\* the code cells of the notebook, top to bottom
CellOrder ==
  << "load_credentials", "set_openai_key", "install_dependencies",
     "install_ollama", "start_ollama", "run_gemma", "check_ollama",
     "construct_controller", "calibrate_threshold", "chat_request" >>

Cells == { CellOrder[i] : i \in 1..Len(CellOrder) }

IndexOf(c) == CHOOSE i \in 1..Len(CellOrder) : CellOrder[i] = c

\* "run all": the cell after c, or "done" after the last one
NextCell(c) ==
  IF IndexOf(c) < Len(CellOrder) THEN CellOrder[IndexOf(c) + 1] ELSE "done"

NoClient == [constructed |-> FALSE, routers |-> << >>,
             strong_model |-> "", weak_model |-> ""]

NoRequest == [sent |-> FALSE, router |-> "", threshold |-> NoOutput,
              content |-> "", routed |-> {}]

NoResponse == [received |-> FALSE, model |-> ""]

VARIABLES
  pc,            \* the cell about to run, or "done", or "halted"
  secrets,       \* the Colab secrets (userdata)
  environ,       \* os.environ, restricted to the three names the cells set
  now,           \* seconds since the "Start Ollama" cell began
  log,           \* the steps executed so far, in order
  outcome,       \* per cell: "none", "ok" or "fail"
  serveLaunches, \* how many times `ollama serve` was launched
  runLaunches,   \* how many times `ollama run gemma2` was launched
  serveReadyAt,  \* when the server answers on localhost:11434, or Never
  modelReadyAt,  \* when gemma2 is available in the server, or Never
  process,       \* the Python variable `process`: the last command launched
  curlOutput,    \* what `curl localhost:11434` printed
  client,        \* the Controller
  calibrated,    \* the threshold printed by the calibration cell
  request,       \* the chat request sent through the client, with the
                 \* downstream models it was passed on to
  response,      \* the Python variable `response`
  stdout         \* what the notebook's own print statements wrote

vars == << pc, secrets, environ, now, log, outcome, serveLaunches,
           runLaunches, serveReadyAt, modelReadyAt, process, curlOutput,
           client, calibrated, request, response, stdout >>

Init ==
  /\ pc = CellOrder[1]
  /\ secrets \in [SecretNames -> SecretValues \cup {Missing}]
  /\ environ = [n \in EnvNames |-> Unset]
  /\ now = 0
  /\ log = << >>
  /\ outcome = [c \in Cells |-> "none"]
  /\ serveLaunches = 0
  /\ runLaunches = 0
  /\ serveReadyAt = Never
  /\ modelReadyAt = Never
  /\ process = "none"
  /\ curlOutput = "none"
  /\ client = NoClient
  /\ calibrated = NoOutput
  /\ request = NoRequest
  /\ response = NoResponse
  /\ stdout = << >>

(* ---------------- helpers ---------------- *)

\* the server launched by `ollama serve` answers on localhost:11434
ServerUp == serveReadyAt # Never /\ now >= serveReadyAt

\* gemma2 has been pulled and is served by the running server
ModelAvailable == ServerUp /\ modelReadyAt # Never /\ now >= modelReadyAt

\* subprocess.Popen(cmd, shell=True): one more process of that command
Popen(launches) == launches + 1

\* a wait that goes on polling after the 5 seconds until the server answers
SleepUntilReady(t) ==
  IF serveReadyAt' # Never /\ serveReadyAt' > t + SleepSecs
  THEN serveReadyAt' ELSE t + SleepSecs

\* time.sleep(5): the cell resumes a fixed time later, whatever the process does
Sleep(t) == t + SleepSecs

\* when a process launched at time t becomes ready: after any delay, or never;
\* never when the ollama binary was not installed
ReadyTimes(t) ==
  IF outcome["install_ollama"] = "ok"
  THEN { t + d : d \in 0..MaxDelay } \cup {Never}
  ELSE {Never}

\* the cell ran to its end (res says whether what it ran succeeded) and
\* "run all" moves to the next cell
Completes(c, res) ==
  /\ log' = Append(log, c)
  /\ outcome' = [outcome EXCEPT ![c] = res]
  /\ pc' = NextCell(c)

\* how many times cell c has been run
Count(c) == Cardinality({ i \in 1..Len(log) : log[i] = c })

\* a cell that is run once more after its first exception
RaisesRetryOnce(c) ==
  /\ log' = Append(log, c)
  /\ outcome' = [outcome EXCEPT ![c] = "fail"]
  /\ pc' = IF Count(c) = 0 THEN c ELSE "halted"

\* the cell raised a Python exception: "run all" stops there
Raises(c) ==
  /\ log' = Append(log, c)
  /\ outcome' = [outcome EXCEPT ![c] = "fail"]
  /\ pc' = "halted"

(* ---------------- the cells ---------------- *)

\* both variables read from the secret HF_TOKEN
CredentialSourceSame(envName) == "HF_TOKEN"

\* os.environ["HF_TOKEN"] = userdata.get("HF_TOKEN")
\* os.environ["GEMINI_API_KEY"] = userdata.get("GOOGLE_API_KEY")
\* userdata.get raises when the secret does not exist
CredentialSource(envName) ==
  IF envName = "HF_TOKEN" THEN "HF_TOKEN" ELSE "GOOGLE_API_KEY"

LoadCredentials ==
  /\ pc = "load_credentials"
  /\ IF secrets[CredentialSource("HF_TOKEN")] = Missing
     THEN /\ Raises("load_credentials")
          /\ UNCHANGED environ
     ELSE IF secrets[CredentialSource("GEMINI_API_KEY")] = Missing
     THEN /\ Raises("load_credentials")
          /\ environ' = [environ EXCEPT
               !["HF_TOKEN"] = secrets[CredentialSource("HF_TOKEN")]]
     ELSE /\ Completes("load_credentials", "ok")
          /\ environ' = [environ EXCEPT
               !["HF_TOKEN"] = secrets[CredentialSource("HF_TOKEN")],
               !["GEMINI_API_KEY"] = secrets[CredentialSource("GEMINI_API_KEY")]]
  /\ UNCHANGED << secrets, now, serveLaunches, runLaunches, serveReadyAt,
                  modelReadyAt, process, curlOutput, client, calibrated,
                  request, response, stdout >>

\* os.environ["OPENAI_API_KEY"] = "dummy"
SetOpenAIKey ==
  /\ pc = "set_openai_key"
  /\ environ' = [environ EXCEPT !["OPENAI_API_KEY"] = "dummy"]
  /\ Completes("set_openai_key", "ok")
  /\ UNCHANGED << secrets, now, serveLaunches, runLaunches, serveReadyAt,
                  modelReadyAt, process, curlOutput, client, calibrated,
                  request, response, stdout >>

\* ! pip install "routellm[serve,eval]" ; ! pip install -q google-generativeai
\* a failing shell command does not stop the notebook
InstallDependencies ==
  /\ pc = "install_dependencies"
  /\ \E res \in {"ok", "fail"} : Completes("install_dependencies", res)
  /\ UNCHANGED << secrets, environ, now, serveLaunches, runLaunches,
                  serveReadyAt, modelReadyAt, process, curlOutput, client,
                  calibrated, request, response, stdout >>

\* !curl https://ollama.ai/install.sh | sh
InstallOllama ==
  /\ pc = "install_ollama"
  /\ \E res \in {"ok", "fail"} : Completes("install_ollama", res)
  /\ UNCHANGED << secrets, environ, now, serveLaunches, runLaunches,
                  serveReadyAt, modelReadyAt, process, curlOutput, client,
                  calibrated, request, response, stdout >>

\* process = subprocess.Popen("ollama serve", shell=True) ; time.sleep(5)
StartOllama ==
  /\ pc = "start_ollama"
  /\ serveLaunches' = Popen(serveLaunches)
  /\ process' = "ollama serve"
  /\ \E r \in ReadyTimes(now) :
       /\ serveReadyAt' = r
       /\ Completes("start_ollama", IF r = Never THEN "fail" ELSE "ok")
  /\ now' = Sleep(now)
  /\ UNCHANGED << secrets, environ, runLaunches, modelReadyAt, curlOutput,
                  client, calibrated, request, response, stdout >>

\* process = subprocess.Popen("ollama run gemma2", shell=True) ; time.sleep(5)
RunGemma ==
  /\ pc = "run_gemma"
  /\ runLaunches' = Popen(runLaunches)
  /\ process' = "ollama run gemma2"
  /\ \E r \in ReadyTimes(now) :
       /\ modelReadyAt' = r
       /\ Completes("run_gemma", IF r = Never THEN "fail" ELSE "ok")
  /\ now' = Sleep(now)
  /\ UNCHANGED << secrets, environ, serveLaunches, serveReadyAt, curlOutput,
                  client, calibrated, request, response, stdout >>

\* !curl localhost:11434 : the output is shown, nothing reads it
CheckOllama ==
  /\ pc = "check_ollama"
  /\ curlOutput' = IF ServerUp THEN "Ollama is running" ELSE "connection refused"
  /\ Completes("check_ollama", IF ServerUp THEN "ok" ELSE "fail")
  /\ \E d \in 0..MaxCellSecs : now' = now + d
  /\ UNCHANGED << secrets, environ, serveLaunches, runLaunches, serveReadyAt,
                  modelReadyAt, process, client, calibrated, request,
                  response, stdout >>

\* client = Controller(routers=["bert"], strong_model="gemini/gemini-pro",
\*                     weak_model="ollama_chat/gemma2")
NewController ==
  [constructed |-> TRUE, routers |-> << "bert" >>,
   strong_model |-> "gemini/gemini-pro", weak_model |-> "ollama_chat/gemma2"]

\* the import needs the installed package, and RouteLLM checks for
\* OPENAI_API_KEY before starting
ControllerCanStart ==
  /\ outcome["install_dependencies"] = "ok"
  /\ environ["OPENAI_API_KEY"] # Unset

ConstructController ==
  /\ pc = "construct_controller"
  /\ \E d \in 0..MaxCellSecs : now' = now + d
  /\ \/ /\ ControllerCanStart
        /\ client' = NewController
        /\ Completes("construct_controller", "ok")
     \/ /\ UNCHANGED client
        /\ Raises("construct_controller")
  /\ UNCHANGED << secrets, environ, serveLaunches, runLaunches, serveReadyAt,
                  modelReadyAt, process, curlOutput, calibrated, request,
                  response, stdout >>

\* !python -m routellm.calibrate_threshold --task calibrate --routers bert
\*    --strong-model-pct 0.3 --config config.example.yaml
\* prints a threshold, or fails and prints none; nothing reads the output
CalibrateThreshold ==
  /\ pc = "calibrate_threshold"
  /\ \E d \in 0..MaxCellSecs : now' = now + d
  /\ \E out \in CalibrationOutputs \cup {NoOutput} :
       /\ calibrated' = out
       /\ Completes("calibrate_threshold",
                    IF out = NoOutput THEN "fail" ELSE "ok")
  /\ UNCHANGED << secrets, environ, serveLaunches, runLaunches, serveReadyAt,
                  modelReadyAt, process, curlOutput, client, request,
                  response, stdout >>

\* a model argument formatted from the output of the calibration cell
ModelArgFromCalibration(calibrationOutput) == calibrationOutput

\* model="router-bert-0.46514": the router name and the threshold
ModelArgThreshold(calibrationOutput) == LiteralThreshold

ModelArgRouter == "bert"

\* the router sends the prompt to either the strong or the weak model of
\* the client
RouteTargets(c) == { c.strong_model, c.weak_model }

\* a print of the model argument of the request instead of response.model
SelectedModelFromArg(resp) == "router-bert-0.46514"

\* print("Selected model: {model}\n".format(model=response.model))
SelectedModel(resp) == resp.model

\* the completion call returns when the routed model answers: the weak model
\* only when gemma2 is available locally, the strong model when the Gemini
\* API accepts the call
CanAnswer(m) ==
  IF m = client.weak_model THEN {ModelAvailable} ELSE {TRUE, FALSE}

\* response = client.chat.completions.create(model=..., messages=[...])
\* print("Selected model: ...") ; print("Response: ...")
ChatRequest ==
  /\ pc = "chat_request"
  /\ client.constructed
  /\ \E m \in RouteTargets(client) :
       /\ request' = [sent |-> TRUE, router |-> ModelArgRouter,
                      threshold |-> ModelArgThreshold(calibrated),
                      content |-> "Hello!", routed |-> {m}]
       /\ \E answered \in CanAnswer(m) :
            IF answered
            THEN /\ response' = [received |-> TRUE, model |-> m]
                 /\ stdout' = << [label |-> "Selected model",
                                  value |-> SelectedModel(response')],
                                 [label |-> "Response",
                                  value |-> "choices[0].message.content"] >>
                 /\ log' = log \o << "chat_request", "print_result" >>
                 /\ outcome' = [outcome EXCEPT !["chat_request"] = "ok"]
                 /\ pc' = NextCell("chat_request")
            ELSE /\ UNCHANGED << response, stdout >>
                 /\ Raises("chat_request")
  /\ UNCHANGED << secrets, environ, now, serveLaunches, runLaunches,
                  serveReadyAt, modelReadyAt, process, curlOutput, client,
                  calibrated >>

Next ==
  \/ LoadCredentials
  \/ SetOpenAIKey
  \/ InstallDependencies
  \/ InstallOllama
  \/ StartOllama
  \/ RunGemma
  \/ CheckOllama
  \/ ConstructController
  \/ CalibrateThreshold
  \/ ChatRequest

Spec == Init /\ [][Next]_vars

(* ---------------- properties ---------------- *)

IsPrefix(s, t) == Len(s) <= Len(t) /\ SubSeq(t, 1, Len(s)) = s

Past(c) == \E i \in 1..Len(log) : log[i] = c

\* the steps of the observable flow, in the order the specification gives
FlowOrder ==
  << "load_credentials", "install_dependencies", "start_ollama",
     "construct_controller", "calibrate_threshold", "chat_request",
     "print_result" >>

IsFlowStep(s) == \E i \in 1..Len(FlowOrder) : FlowOrder[i] = s

\* C1: the steps of the flow (load credentials, install dependencies, start
\* the server process, construct the client, calibrate, send the chat
\* request, print the result) happen in exactly this order and each at most
\* once: the steps executed so far are always a prefix of that sequence, so
\* the client is never constructed before the server-start step and the
\* request is never sent before the client is constructed.
C1_LinearFlow ==
  /\ IsPrefix(SelectSeq(log, IsFlowStep), FlowOrder)
  /\ client.constructed => Past("start_ollama")
  /\ request.sent => client.constructed

C1_Witness ==
  /\ pc = "done"
  /\ SelectSeq(log, IsFlowStep) = FlowOrder

\* C2: whenever the run is past the "Check if Ollama is running" cell, the
\* server launched by `ollama serve` is up and answering on localhost:11434.
C2_ServerUpPastCheck == Past("check_ollama") => ServerUp

\* C3: the server-start cell launches `ollama serve` exactly once, waits
\* exactly 5 seconds and completes whether or not the server is ready; no
\* other cell launches it again or touches the process; the same holds for
\* the `ollama run gemma2` cell.
C3_LaunchOnceFixedWait ==
  [][ /\ pc = "start_ollama" =>
           /\ serveLaunches' = 1
           /\ now' = now + 5
           /\ pc' = NextCell("start_ollama")
      /\ pc # "start_ollama" =>
           /\ serveLaunches' = serveLaunches
           /\ serveReadyAt' = serveReadyAt
      /\ pc = "run_gemma" =>
           /\ runLaunches' = 1
           /\ now' = now + 5
           /\ pc' = NextCell("run_gemma")
      /\ pc # "run_gemma" =>
           /\ runLaunches' = runLaunches
           /\ modelReadyAt' = modelReadyAt ]_vars

\* both cells have completed although the server has not become ready
C3_Witness ==
  /\ pc = "check_ollama"
  /\ serveLaunches = 1
  /\ runLaunches = 1
  /\ now = 10
  /\ serveReadyAt = 1
  /\ modelReadyAt > now

\* C4 (as claimed): the threshold in the model argument of the chat request
\* is the value the calibration cell printed.
C4_ThresholdFromCalibration ==
  request.sent => request.threshold = calibrated

\* C4 (amended): the threshold in the model argument is the literal 0.46514
\* for the router bert, whatever the calibration cell printed; it is the
\* calibrated value only when that value is 0.46514.
C4_ThresholdIsLiteral ==
  request.sent =>
    /\ request.router = "bert"
    /\ request.threshold = 46514
    /\ (request.threshold = calibrated) <=> (calibrated = 46514)

C4_Witness ==
  /\ request.sent
  /\ calibrated \in CalibrationOutputs
  /\ calibrated # request.threshold

C6_NoRetryNoRecovery ==
  [][ /\ \A c \in Cells :
           /\ Count(c)' <= 1
           /\ outcome[c] = "fail" =>
                /\ outcome'[c] = "fail"
                /\ Count(c)' = Count(c)
      /\ pc \in Cells =>
           /\ pc' \in {NextCell(pc), "halted"}
           /\ outcome'[pc] = "fail" => stdout' = stdout
      /\ \A i \in 1..Len(stdout') :
           stdout'[i].label \in {"Selected model", "Response"} ]_vars

\* a run in which shell steps failed and which went on, then stopped at an
\* exception
C6_Witness ==
  /\ pc = "halted"
  /\ outcome["install_ollama"] = "fail"
  /\ outcome["calibrate_threshold"] = "fail"
  /\ outcome["chat_request"] = "fail"
  /\ stdout = << >>

\* C7: from the construction of the Controller to the chat request,
\* OPENAI_API_KEY is "dummy", GEMINI_API_KEY is the secret GOOGLE_API_KEY and
\* HF_TOKEN is the secret HF_TOKEN.
C7_EnvSetAtConstruction ==
  (pc \in {"construct_controller", "calibrate_threshold", "chat_request"}
     \/ client.constructed \/ request.sent) =>
    /\ environ["OPENAI_API_KEY"] = "dummy"
    /\ secrets["GOOGLE_API_KEY"] # Missing
    /\ environ["GEMINI_API_KEY"] = secrets["GOOGLE_API_KEY"]
    /\ secrets["HF_TOKEN"] # Missing
    /\ environ["HF_TOKEN"] = secrets["HF_TOKEN"]

C7_Witness ==
  /\ request.sent
  /\ environ["OPENAI_API_KEY"] = "dummy"
  /\ environ["GEMINI_API_KEY"] = "key_a"
  /\ environ["HF_TOKEN"] = "key_b"

\* C8: whenever the chat request is routed to the weak model
\* ollama_chat/gemma2, gemma2 is already available in the local server.
C8_ModelReadyWhenWeak ==
  (request.sent /\ "ollama_chat/gemma2" \in request.routed) => ModelAvailable

====
